---- MODULE Spec2Model ----
(***************************************************************************)
(* Turn-processing pipeline of the mushroom chatbot (mushroom_chatbot.py): *)
(* the safety filter, the structured extraction, the shared conversation   *)
(* history and the streaming reply of the generator function response().   *)
(*                                                                         *)
(* A text is a sequence of one-character strings, so that lower(), strip() *)
(* and the \b(...)\b rules are computed character by character.  Fixed     *)
(* messages and templates are sequences of longer strings.                 *)
(***************************************************************************)
EXTENDS Integers, Sequences, FiniteSets, TLC

\* ------------------------------------------------------------------------
\* Bounds of the model
\* ------------------------------------------------------------------------
\* number of turns (calls of response) submitted in one behaviour
MaxTurns == 2
\* number of chunks the streaming provider delivers in one behaviour
MaxChunks == 2

\* ------------------------------------------------------------------------
\* Strings: str.lower, str.strip, regular-expression word rules
\* ------------------------------------------------------------------------
UpperLetters ==
    <<"A","B","C","D","E","F","G","H","I","J","K","L","M",
      "N","O","P","Q","R","S","T","U","V","W","X","Y","Z">>

LowerLetters ==
    <<"a","b","c","d","e","f","g","h","i","j","k","l","m",
      "n","o","p","q","r","s","t","u","v","w","x","y","z">>

Digits == {"0","1","2","3","4","5","6","7","8","9"}

Range(s) == {s[i] : i \in DOMAIN s}

\* one character of str.lower()
ToLower(c) ==
    IF \E i \in DOMAIN UpperLetters : UpperLetters[i] = c
    THEN LowerLetters[CHOOSE i \in DOMAIN UpperLetters : UpperLetters[i] = c]
    ELSE c

\* str.lower()
lower(s) == [i \in 1..Len(s) |-> ToLower(s[i])]

\* str.isspace() of one character
IsSpace(c) == c \in {" ", "\t", "\n", "\r"}

\* str.strip(): the text without its leading and trailing whitespace
strip(s) ==
    LET keep == {i \in 1..Len(s) : ~IsSpace(s[i])}
    IN  IF keep = {} THEN <<>>
        ELSE LET first == CHOOSE i \in keep : \A j \in keep : i <= j
                 last  == CHOOSE i \in keep : \A j \in keep : j <= i
             IN  SubSeq(s, first, last)

\* truth value of a Python string or list: non-empty
Truthy(s) == Len(s) > 0

\* \w of the re module
IsWordChar(c) ==
    \/ c \in Range(LowerLetters)
    \/ c \in Range(UpperLetters)
    \/ c \in Digits
    \/ c = "_"

\* \b between s[i] and s[i+1] (i = 0: start of the text, i = Len(s): its end)
WordBoundary(s, i) ==
    LET before == i >= 1 /\ IsWordChar(s[i])
        after  == i < Len(s) /\ IsWordChar(s[i + 1])
    IN  before # after

\* the pattern elements that are not one literal character: \s+ and '?
WS == "\\s+"
OptApostrophe == "'?"

\* the positions where a match of alt[k..] that starts at s[i] can end (the
\* index after its last character); alt is a sequence of literal characters,
\* WS and OptApostrophe
RECURSIVE MatchEnds(_, _, _, _)
MatchEnds(alt, k, s, i) ==
    IF k > Len(alt) THEN {i}
    ELSE IF alt[k] = WS
    THEN UNION {MatchEnds(alt, k + 1, s, j) :
                  j \in {n \in (i + 1)..(Len(s) + 1) :
                           \A m \in i..(n - 1) : IsSpace(s[m])}}
    ELSE IF alt[k] = OptApostrophe
    THEN MatchEnds(alt, k + 1, s, i) \cup
         (IF i <= Len(s) /\ s[i] = "'"
          THEN MatchEnds(alt, k + 1, s, i + 1) ELSE {})
    ELSE IF i <= Len(s) /\ s[i] = alt[k]
    THEN MatchEnds(alt, k + 1, s, i + 1)
    ELSE {}

\* re.search(pat, s) for a rule pat = (a1|a2|...), with \b on both sides of
\* the group when pat.bounded
re_search(pat, s) ==
    \E k \in DOMAIN pat.alts : \E i \in 1..(Len(s) + 1) :
        \E e \in MatchEnds(pat.alts[k], 1, s, i) :
            pat.bounded => WordBoundary(s, i - 1) /\ WordBoundary(s, e - 1)

\* ------------------------------------------------------------------------
\* Safety filter
\* ------------------------------------------------------------------------
None == "None"

\* the rule table of mushroom_chatbot.py
RISKY_PATTERNS == <<
  [category |-> "medical",
   patterns |-> <<
        [bounded |-> TRUE,
         alts |-> <<
            <<"s","y","m","p","t","o","m">>,
            <<"s","y","m","p","t","o","m","s">> >>],
        [bounded |-> TRUE,
         alts |-> <<
            <<"t","r","e","a","t","m","e","n","t">>,
            <<"t","r","e","a","t","m","e","n","t","s">> >>],
        [bounded |-> TRUE,
         alts |-> <<
            <<"c","u","r","e">>,
            <<"c","u","r","e","s">> >>],
        [bounded |-> TRUE,
         alts |-> <<
            <<"m","e","d","i","c","i","n","e">>,
            <<"m","e","d","i","c","i","n","e","s">> >>],
        [bounded |-> TRUE,
         alts |-> <<
            <<"d","i","s","e","a","s","e">>,
            <<"d","i","s","e","a","s","e","s">> >>],
        [bounded |-> TRUE,
         alts |-> <<
            <<"p","o","i","s","o","n">>,
            <<"p","o","i","s","o","n","s">>,
            <<"t","o","x","i","c">>,
            <<"t","o","x","i","c","i","t","y">> >>],
        [bounded |-> TRUE,
         alts |-> <<
            <<"s","y","m","p","t","o","m">>,
            <<"s","y","m","t","o","m">> >>],
        [bounded |-> TRUE,
         alts |-> <<
            <<"b","e","h","a","n","d","l","i","n","g">>,
            <<"b","e","h","a","n","d","l","i","n","g","a","r">> >>],
        [bounded |-> TRUE,
         alts |-> <<
            <<"b","o","t","e","m","e","d","e","l">>,
            <<"b","o","t","e","m","e","d","e","l">> >>],
        [bounded |-> TRUE,
         alts |-> <<
            <<"m","e","d","i","c","i","n">>,
            <<"m","e","d","i","c","i","n","e","r">> >>],
        [bounded |-> TRUE,
         alts |-> <<
            <<"s","j","u","k","d","o","m">>,
            <<"s","j","u","k","d","o","m","a","r">> >>],
        [bounded |-> TRUE,
         alts |-> <<
            <<"g","i","f","t">>,
            <<"g","i","f","t","i","g">>,
            <<"t","o","x","i","s","k","t">>,
            <<"t","o","x","i","c","i","t","e","t">> >>] >>]
>>

\* the rule table of final_mushroom_chatbot.py, three categories in this order
RISKY_PATTERNS_final == <<
  [category |-> "color",
   patterns |-> <<
        [bounded |-> FALSE,
         alts |-> <<
            <<"w","h","a","t",WS,"c","o","l","o","r",WS,"i","s",WS,"t","h","e",WS,"m","u","s","h","r","o","o","m">> >>],
        [bounded |-> FALSE,
         alts |-> <<
            <<"m","u","s","h","r","o","o","m",OptApostrophe,"s",WS,"c","o","l","o","r">> >>],
        [bounded |-> FALSE,
         alts |-> <<
            <<"v","i","l","k","e","n",WS,"f","ä","r","g",WS,"h","a","r",WS,"s","v","a","m","p","e","n">> >>] >>],
  [category |-> "edibility",
   patterns |-> <<
        [bounded |-> TRUE,
         alts |-> <<
            <<"i","s",WS,"i","t",WS,"e","d","i","b","l","e">>,
            <<"k","a","n",WS,"m","a","n",WS,"ä","t","a">>,
            <<"e","a","t",WS,"t","h","i","s">> >>],
        [bounded |-> TRUE,
         alts |-> <<
            <<"p","o","i","s","o","n","o","u","s">>,
            <<"g","i","f","t","i","g">>,
            <<"t","o","x","i","c">> >>] >>],
  [category |-> "medical",
   patterns |-> <<
        [bounded |-> TRUE,
         alts |-> <<
            <<"s","y","m","p","t","o","m">>,
            <<"s","y","m","t","o","m">>,
            <<"t","r","e","a","t","m","e","n","t">>,
            <<"b","e","h","a","n","d","l","i","n","g">>,
            <<"c","u","r","e">> >>],
        [bounded |-> TRUE,
         alts |-> <<
            <<"m","e","d","i","c","i","n">>,
            <<"m","e","d","i","c","i","n","e">>,
            <<"s","j","u","k","d","o","m">> >>] >>]
>>

\* the category has a rule that matches the lower-cased text
CategoryMatches(entry, text) ==
    LET lowered == lower(text)
    IN  \E p \in DOMAIN entry.patterns : re_search(entry.patterns[p], lowered)

\* the last category, in table order, with a matching rule
ClassifyLast(table, text) ==
    LET hits == {c \in DOMAIN table : CategoryMatches(table[c], text)}
    IN  IF hits = {} THEN None
        ELSE table[CHOOSE c \in hits : \A d \in hits : d <= c].category

\* classify_question over a rule table: the first category, in table order,
\* with a matching rule; None when there is none
ClassifyWith(table, text) ==
    LET hits == {c \in DOMAIN table : CategoryMatches(table[c], text)}
    IN  IF hits = {} THEN None
        ELSE table[CHOOSE c \in hits : \A d \in hits : c <= d].category

classify_question(text) == ClassifyWith(RISKY_PATTERNS, text)

\* classify_question of final_mushroom_chatbot.py
classify_question_final(text) == ClassifyWith(RISKY_PATTERNS_final, text)

\* the fixed reply of the safety filter
MedicalMsg ==
    <<"I cannot provide advice about toxicity and medicin. Never eat a mushroom based only on this chat.",
      "Always contact healthcare professionals. My focus is only on mycological characteristics.">>

\* the fixed reply of the except branch of the streaming block
StreamErrMsg ==
    <<"A technical error occurred during model streaming. Please try again.">>

\* ------------------------------------------------------------------------
\* Fragments and turns of conversation_history
\* ------------------------------------------------------------------------
TextPart(t) == [kind |-> "text", data |-> t]

\* a file the user can attach: its name's extension and whether open() works
PhotoFile == [name |-> "photo", ext |-> ".png", readable |-> TRUE]
LostFile  == [name |-> "lost", ext |-> ".png", readable |-> FALSE]

\* mimetypes.guess_type on the name
guess_type(file) ==
    CASE file.ext = ".png" -> "image/png"
      [] file.ext = ".jpg" -> "image/jpeg"
      [] OTHER -> None

\* _part_for_image on a readable file: the bytes with the guessed mime type
\* (image/jpeg when the name tells nothing)
part_for_image(file) ==
    LET mime == guess_type(file)
    IN  [kind |-> "image",
         data |-> <<IF mime = None THEN "image/jpeg" ELSE mime, file.name>>]

NoPart == [kind |-> "none", data |-> <<>>]

\* ------------------------------------------------------------------------
\* Structured extraction: JSON values and the two summary templates
\* ------------------------------------------------------------------------
\* a JSON value as json.loads returns it: None, a dict or a list
JsonNone == [type |-> "null", val |-> <<>>]

JsonObject(fields) == [type |-> "object", val |-> fields]

JsonArray(items) == [type |-> "array", val |-> items]

\* the six fields the response schema requires
RequiredFields == {"common_name", "genus", "confidence", "visible", "color", "edible"}

\* a fully populated record; confidence is held in thousandths (820 = 0.82)
FlyAgaric ==
    JsonObject([common_name |-> "Fly Agaric", genus |-> "Amanita",
                confidence |-> 820, visible |-> <<"red cap", "white spots">>,
                color |-> "red", edible |-> FALSE])

\* an object that lacks required fields
PartialGuess == JsonObject([common_name |-> "Porcini", confidence |-> 1000])

EmptyObject == JsonObject(<<>>)

NonObject == JsonArray(<<"Fly Agaric">>)

\* truth value of a parsed JSON value (None, {} and [] are false)
PyTruthy(v) ==
    CASE v.type = "null"   -> FALSE
      [] v.type = "object" -> DOMAIN v.val # {}
      [] v.type = "array"  -> Len(v.val) > 0

\* only a dict has .get
HasGet(v) == v.type = "object"

\* dict.get(key, default)
Get(v, key, default) == IF key \in DOMAIN v.val THEN v.val[key] ELSE default

\* sep.join(items), kept as the sequence of its pieces
RECURSIVE Join(_, _)
Join(sep, items) ==
    IF Len(items) = 0 THEN <<>>
    ELSE IF Len(items) = 1 THEN <<items[1]>>
    ELSE <<items[1], sep>> \o Join(sep, Tail(items))

\* format(x, ".0%") of a number given in thousandths: percent, no decimals,
\* ties to even
Percent(x) ==
    LET q == x \div 10
        r == x % 10
        up == r > 5 \/ (r = 5 /\ q % 2 = 1)
    IN  <<ToString(IF up THEN q + 1 ELSE q), "%">>

\* the reply of an image-only turn (lines 143-150), stripped
Summary(info) ==
    <<"* Suggested species: ", Get(info, "common_name", "?"),
      " (genus ", Get(info, "genus", "?"), ")",
      "* Color: ", Get(info, "color", "?"),
      "* Visible traits: ">> \o Join(", ", Get(info, "visible", <<>>)) \o
    <<"* Model confidence: ">> \o Percent(Get(info, "confidence", 0)) \o
    <<"NEVER eat a mushroom based only on this chat. Always consult experts or literature.">>

\* the synthetic context turn of an image-and-text turn (lines 157-160)
JsonSummary(info) ==
    <<"The image analysis suggests: ", Get(info, "common_name", "?"),
      " (genus ", Get(info, "genus", "?"), "), color ", Get(info, "color", "?"),
      ", visible traits ">> \o Join(", ", Get(info, "visible", <<>>)) \o
    <<", confidence ">> \o Percent(Get(info, "confidence", 0)) \o <<".">>

\* what the extraction provider can answer: a text json.loads rejects, or a
\* text that parses to one of the values above
ExtractionResponses ==
    {[parses |-> FALSE, value |-> JsonNone]} \cup
    {[parses |-> TRUE, value |-> v] :
        v \in {FlyAgaric, PartialGuess, EmptyObject, NonObject}}

\* ------------------------------------------------------------------------
\* Inputs of a turn and answers of the streaming provider
\* ------------------------------------------------------------------------
Blank == <<" ">>

Hello == <<"h","i">>

ToxicQuestion == <<"T","o","x","i","c","?">>

Texts == {Blank, Hello, ToxicQuestion}

FileLists == {<<>>, <<PhotoFile>>, <<LostFile>>}

\* chunk.text of a chunk that carries text
ChunkTexts == {<<"a">>, <<" ">>}

\* a chunk without text has chunk.text None or ""
NoText == <<>>

\* the question of the poisoning scenario
PoisonousQuestion ==
    <<"I","s"," ","t","h","i","s"," ","p","o","i","s","o","n","o","u","s","?">>

\* the texts of the poisoning scenario; the other two make the turns that are
\* blocked and the turns that are answered by a summary
ScenarioTexts == {Blank, ToxicQuestion, PoisonousQuestion}

\* what each text a user can send classifies into
Categories == [text \in Texts \cup ScenarioTexts |-> classify_question(text)]

\* the generators (calls of response) that can be alive
Gens == {1, 2}

\* ------------------------------------------------------------------------
\* State
\* ------------------------------------------------------------------------
VARIABLES
    conversation_history,  \* the global list of turns, each a list of parts
    last_mushroom_json,    \* the global last parsed extraction result
    frame,                 \* per generator: position and local variables
    trace,                 \* per generator: what the turn has done so far
    turns,                 \* number of calls of response so far
    delivered,             \* number of chunks delivered so far
    probe                  \* one call of classify_question: input and result

vars == <<conversation_history, last_mushroom_json, frame, trace, turns, delivered, probe>>

\* positions where the generator is suspended in a yield
YieldPcs == {"yield_msg", "yield_summary", "yield_chunk", "yield_err"}

\* positions where the generator is inside a pull of its consumer
RunPcs == {"start", "parts", "extract", "compose", "call", "iter"}

\* positions of a generator that will run no more code
EndPcs == {"idle", "done", "raised", "closed"}

IdleFrame ==
    [pc |-> "idle", user_text |-> <<>>, user_files |-> <<>>,
     image_part |-> NoPart, mushroom_info |-> JsonNone, partial_text |-> <<>>]

\* out: the elements yielded; h0: the history when the turn was submitted;
\* reads: files opened; extracts: extraction requests; contexts: the contents
\* of each streaming request; chunks: chunk.text of the chunks received;
\* appended: the role of each turn this generator appended to the history;
\* failed: the except branch of the streaming block ran; error: the exception
\* that left the generator; effects: the reply paths the turn has entered
\* (safety message, summary, synthetic turn, streaming request); category:
\* what the text of the turn classifies into; parse: how json.loads ended
\* ("parsed", "failed");
\* at: the index in the history of each turn this generator appended;
\* overlapped: another generator was alive at some moment of this turn
IdleTrace ==
    [out |-> <<>>, h0 |-> <<>>, reads |-> 0, extracts |-> 0, contexts |-> <<>>,
     chunks |-> <<>>, appended |-> <<>>, failed |-> FALSE, error |-> None,
     effects |-> {}, category |-> None, parse |-> None,
     at |-> <<>>, overlapped |-> FALSE]

\* no call of classify_question under observation
NoProbe == [table |-> None, text |-> <<>>, result |-> "pending"]

Init ==
    /\ conversation_history = <<>>
    /\ last_mushroom_json = JsonNone
    /\ frame = [g \in Gens |-> IdleFrame]
    /\ trace = [g \in Gens |-> IdleTrace]
    /\ turns = 0
    /\ delivered = 0
    /\ probe = NoProbe

\* the generator g has been created and has not ended
Alive(g) == frame[g].pc \notin EndPcs

\* ------------------------------------------------------------------------
\* response(inputs, history), one action per stretch of code between two
\* suspension points (a yield or a provider call)
\* ------------------------------------------------------------------------
\* the consumer calls response(inputs, history): a generator is created, no
\* line of the body has run yet
Call(g, text, files) ==
    /\ frame[g].pc \in EndPcs
    /\ turns < MaxTurns
    /\ frame' = [frame EXCEPT ![g] =
                   [IdleFrame EXCEPT !.pc = "start", !.user_text = text,
                                     !.user_files = files]]
    /\ trace' = [k \in Gens |->
                   IF k = g
                   THEN [IdleTrace EXCEPT
                           !.h0 = conversation_history,
                           !.category = Categories[text],
                           !.overlapped = \E h \in Gens \ {g} : Alive(h)]
                   ELSE IF Alive(k)
                   THEN [trace[k] EXCEPT !.overlapped = TRUE]
                   ELSE trace[k]]
    /\ turns' = turns + 1
    /\ UNCHANGED <<conversation_history, last_mushroom_json, delivered, probe>>

\* a turn of the chat: any of the texts, with or without a file
Begin(g) == \E text \in Texts, files \in FileLists : Call(g, text, files)

\* the filter tests for a category its rule table does not have
InterceptsOther(risky_category) == risky_category = "edibility"

\* line 85: the categories the filter intercepts
Intercepts(risky_category) == risky_category = "medical"

\* lines 80-90: the safety filter, up to its yield
SafetyFilter(g) ==
    /\ frame[g].pc = "start"
    /\ LET risky_category == classify_question(frame[g].user_text)
       IN  IF Intercepts(risky_category)
           THEN /\ frame' = [frame EXCEPT ![g].pc = "yield_msg"]
                /\ trace' = [trace EXCEPT ![g].out = Append(@, MedicalMsg),
                                          ![g].effects = @ \cup {"safety"}]
           ELSE /\ frame' = [frame EXCEPT ![g].pc = "parts"]
                /\ UNCHANGED trace
    /\ UNCHANGED <<conversation_history, last_mushroom_json, turns, delivered, probe>>

\* the question is stored as a user turn before the safety message
AfterSafetyKeepsText(g) ==
    /\ frame[g].pc = "yield_msg"
    /\ conversation_history' =
         conversation_history \o
         <<<<TextPart(frame[g].user_text)>>, <<TextPart(MedicalMsg)>>>>
    /\ frame' = [frame EXCEPT ![g].pc = "done"]
    /\ trace' = [trace EXCEPT ![g].appended = @ \o <<"user", "assistant">>,
                              ![g].at = @ \o <<Len(conversation_history) + 1,
                                               Len(conversation_history) + 2>>]
    /\ UNCHANGED <<last_mushroom_json, turns, delivered, probe>>

\* the safety message is yielded but not stored
AfterSafetyNoAppend(g) ==
    /\ frame[g].pc = "yield_msg"
    /\ frame' = [frame EXCEPT ![g].pc = "done"]
    /\ UNCHANGED <<conversation_history, last_mushroom_json, trace, turns, delivered, probe>>

\* the blocked question is stored, after the safety message
AfterSafetyStoresQuestion(g) ==
    /\ frame[g].pc = "yield_msg"
    /\ conversation_history' =
         conversation_history \o
         <<<<TextPart(MedicalMsg)>>, <<TextPart(frame[g].user_text)>>>>
    /\ frame' = [frame EXCEPT ![g].pc = "done"]
    /\ trace' = [trace EXCEPT ![g].appended = @ \o <<"assistant", "user">>,
                              ![g].at = @ \o <<Len(conversation_history) + 1,
                                               Len(conversation_history) + 2>>]
    /\ UNCHANGED <<last_mushroom_json, turns, delivered, probe>>

\* lines 91-92: resumed after the safety message
AfterSafety(g) ==
    /\ frame[g].pc = "yield_msg"
    /\ conversation_history' = Append(conversation_history, <<TextPart(MedicalMsg)>>)
    /\ frame' = [frame EXCEPT ![g].pc = "done"]
    /\ trace' = [trace EXCEPT ![g].appended = Append(@, "assistant"),
                              ![g].at = Append(@, Len(conversation_history) + 1)]
    /\ UNCHANGED <<last_mushroom_json, turns, delivered, probe>>

\* the parts are appended even when there are none
AddUserInputAlways(g) ==
    /\ frame[g].pc = "parts"
    /\ LET f == frame[g]
           text_parts == IF Truthy(strip(f.user_text))
                         THEN <<TextPart(f.user_text)>> ELSE <<>>
       IN  IF Truthy(f.user_files) /\ ~f.user_files[1].readable
           THEN /\ frame' = [frame EXCEPT ![g].pc = "raised"]
                /\ trace' = [trace EXCEPT ![g].reads = @ + 1, ![g].error = "OSError"]
                /\ UNCHANGED conversation_history
           ELSE LET image == IF Truthy(f.user_files)
                             THEN part_for_image(f.user_files[1]) ELSE NoPart
                    parts == IF Truthy(f.user_files)
                             THEN Append(text_parts, image) ELSE text_parts
                IN  /\ frame' = [frame EXCEPT
                                   ![g].image_part = image,
                                   ![g].pc = IF Truthy(f.user_files)
                                             THEN "extract" ELSE "compose"]
                    /\ conversation_history' = Append(conversation_history, parts)
                    /\ trace' = [trace EXCEPT
                                   ![g].reads = IF Truthy(f.user_files) THEN @ + 1 ELSE @,
                                   ![g].appended = Append(@, "user"),
                                   ![g].at = Append(@, Len(conversation_history) + 1)]
    /\ UNCHANGED <<last_mushroom_json, turns, delivered, probe>>

\* the text part is appended before the file is opened
AddUserInputTextFirst(g) ==
    /\ frame[g].pc = "parts"
    /\ LET f == frame[g]
           text_parts == IF Truthy(strip(f.user_text))
                         THEN <<TextPart(f.user_text)>> ELSE <<>>
       IN  IF Truthy(f.user_files) /\ ~f.user_files[1].readable
           THEN /\ frame' = [frame EXCEPT ![g].pc = "raised"]
                /\ conversation_history' =
                     IF Truthy(text_parts)
                     THEN Append(conversation_history, text_parts)
                     ELSE conversation_history
                /\ trace' = [trace EXCEPT
                               ![g].reads = @ + 1,
                               ![g].error = "OSError",
                               ![g].appended = IF Truthy(text_parts)
                                               THEN Append(@, "user") ELSE @,
                               ![g].at = IF Truthy(text_parts)
                                         THEN Append(@, Len(conversation_history) + 1)
                                         ELSE @]
           ELSE LET image == IF Truthy(f.user_files)
                             THEN part_for_image(f.user_files[1]) ELSE NoPart
                    parts == IF Truthy(f.user_files)
                             THEN Append(text_parts, image) ELSE text_parts
                IN  /\ frame' = [frame EXCEPT
                                   ![g].image_part = image,
                                   ![g].pc = IF Truthy(f.user_files)
                                             THEN "extract" ELSE "compose"]
                    /\ conversation_history' =
                         IF Truthy(parts)
                         THEN Append(conversation_history, parts)
                         ELSE conversation_history
                    /\ trace' = [trace EXCEPT
                                   ![g].reads = IF Truthy(f.user_files) THEN @ + 1 ELSE @,
                                   ![g].appended = IF Truthy(parts)
                                                   THEN Append(@, "user") ELSE @,
                                   ![g].at = IF Truthy(parts)
                                             THEN Append(@, Len(conversation_history) + 1)
                                             ELSE @]
    /\ UNCHANGED <<last_mushroom_json, turns, delivered, probe>>

\* lines 94-106: the user's parts are built and appended; open() of an
\* unreadable file raises out of the generator
AddUserInput(g) ==
    /\ frame[g].pc = "parts"
    /\ LET f == frame[g]
           text_parts == IF Truthy(strip(f.user_text))
                         THEN <<TextPart(f.user_text)>> ELSE <<>>
       IN  IF Truthy(f.user_files) /\ ~f.user_files[1].readable
           THEN /\ frame' = [frame EXCEPT ![g].pc = "raised"]
                /\ trace' = [trace EXCEPT ![g].reads = @ + 1, ![g].error = "OSError"]
                /\ UNCHANGED conversation_history
           ELSE LET image == IF Truthy(f.user_files)
                             THEN part_for_image(f.user_files[1]) ELSE NoPart
                    parts == IF Truthy(f.user_files)
                             THEN Append(text_parts, image) ELSE text_parts
                IN  /\ frame' = [frame EXCEPT
                                   ![g].image_part = image,
                                   ![g].pc = IF Truthy(f.user_files)
                                             THEN "extract" ELSE "compose"]
                    /\ conversation_history' =
                         IF Truthy(parts)
                         THEN Append(conversation_history, parts)
                         ELSE conversation_history
                    /\ trace' = [trace EXCEPT
                                   ![g].reads = IF Truthy(f.user_files) THEN @ + 1 ELSE @,
                                   ![g].appended = IF Truthy(parts)
                                                   THEN Append(@, "user") ELSE @,
                                   ![g].at = IF Truthy(parts)
                                             THEN Append(@, Len(conversation_history) + 1)
                                             ELSE @]
    /\ UNCHANGED <<last_mushroom_json, turns, delivered, probe>>

\* a response that does not parse clears the stored guess
ExtractForgetsGuess(g) ==
    /\ frame[g].pc = "extract"
    /\ \/ /\ frame' = [frame EXCEPT ![g].pc = "raised"]
          /\ trace' = [trace EXCEPT ![g].extracts = @ + 1,
                                    ![g].error = "ProviderError"]
          /\ UNCHANGED last_mushroom_json
       \/ \E struct_resp \in ExtractionResponses :
            /\ trace' = [trace EXCEPT
                           ![g].extracts = @ + 1,
                           ![g].parse = IF struct_resp.parses
                                        THEN "parsed" ELSE "failed"]
            /\ frame' = [frame EXCEPT
                           ![g].pc = "compose",
                           ![g].mushroom_info = struct_resp.value]
            /\ last_mushroom_json' = struct_resp.value
    /\ UNCHANGED <<conversation_history, turns, delivered, probe>>

\* a parsed response is stored only while no guess is stored yet
ExtractKeepsFirst(g) ==
    /\ frame[g].pc = "extract"
    /\ \/ /\ frame' = [frame EXCEPT ![g].pc = "raised"]
          /\ trace' = [trace EXCEPT ![g].extracts = @ + 1,
                                    ![g].error = "ProviderError"]
          /\ UNCHANGED last_mushroom_json
       \/ \E struct_resp \in ExtractionResponses :
            /\ trace' = [trace EXCEPT
                           ![g].extracts = @ + 1,
                           ![g].parse = IF struct_resp.parses
                                        THEN "parsed" ELSE "failed"]
            /\ IF struct_resp.parses
               THEN /\ frame' = [frame EXCEPT ![g].pc = "compose",
                                              ![g].mushroom_info = struct_resp.value]
                    /\ last_mushroom_json' =
                         IF last_mushroom_json = JsonNone
                         THEN struct_resp.value ELSE last_mushroom_json
               ELSE /\ frame' = [frame EXCEPT ![g].pc = "compose"]
                    /\ UNCHANGED last_mushroom_json
    /\ UNCHANGED <<conversation_history, turns, delivered, probe>>

\* a response that does not parse is asked for once more
ExtractRetries(g) ==
    /\ frame[g].pc = "extract"
    /\ \/ /\ frame' = [frame EXCEPT ![g].pc = "raised"]
          /\ trace' = [trace EXCEPT ![g].extracts = @ + 1,
                                    ![g].error = "ProviderError"]
          /\ UNCHANGED last_mushroom_json
       \/ \E struct_resp \in ExtractionResponses :
            /\ trace' = [trace EXCEPT
                           ![g].extracts = @ + 1,
                           ![g].parse = IF struct_resp.parses
                                        THEN "parsed" ELSE "failed"]
            /\ IF struct_resp.parses
               THEN /\ frame' = [frame EXCEPT ![g].pc = "compose",
                                              ![g].mushroom_info = struct_resp.value]
                    /\ last_mushroom_json' = struct_resp.value
               ELSE /\ frame' = [frame EXCEPT
                                   ![g].pc = IF trace[g].extracts = 0
                                             THEN "extract" ELSE "compose"]
                    /\ UNCHANGED last_mushroom_json
    /\ UNCHANGED <<conversation_history, turns, delivered, probe>>

\* lines 109-139: one extraction request; the provider raises, or answers a
\* text that json.loads accepts or rejects
Extract(g) ==
    /\ frame[g].pc = "extract"
    /\ \/ /\ frame' = [frame EXCEPT ![g].pc = "raised"]
          /\ trace' = [trace EXCEPT ![g].extracts = @ + 1,
                                    ![g].error = "ProviderError"]
          /\ UNCHANGED last_mushroom_json
       \/ \E struct_resp \in ExtractionResponses :
            /\ trace' = [trace EXCEPT
                           ![g].extracts = @ + 1,
                           ![g].parse = IF struct_resp.parses
                                        THEN "parsed" ELSE "failed"]
            /\ IF struct_resp.parses
               THEN /\ frame' = [frame EXCEPT ![g].pc = "compose",
                                              ![g].mushroom_info = struct_resp.value]
                    /\ last_mushroom_json' = struct_resp.value
               ELSE /\ frame' = [frame EXCEPT ![g].pc = "compose"]
                    /\ UNCHANGED last_mushroom_json
    /\ UNCHANGED <<conversation_history, turns, delivered, probe>>

\* the summary is chosen without looking at the text
SummaryOnlyAnyText(f) ==
    /\ f.image_part # NoPart
    /\ PyTruthy(f.mushroom_info)

\* line 142: the condition of the image-only summary
SummaryOnly(f) ==
    /\ f.image_part # NoPart
    /\ ~Truthy(strip(f.user_text))
    /\ PyTruthy(f.mushroom_info)

\* the synthetic context turn is never chosen
WithContextNever(f) == FALSE

\* line 156: the condition of the synthetic context turn
WithContext(f) ==
    /\ f.image_part # NoPart
    /\ Truthy(strip(f.user_text))
    /\ PyTruthy(f.mushroom_info)

\* lines 141-161: the summary is yielded, or the synthetic turn is appended,
\* or neither; .get on a value that is no dict raises out of the generator
Compose(g) ==
    /\ frame[g].pc = "compose"
    /\ LET f == frame[g]
       IN  IF (SummaryOnly(f) \/ WithContext(f)) /\ ~HasGet(f.mushroom_info)
           THEN /\ frame' = [frame EXCEPT ![g].pc = "raised"]
                /\ trace' = [trace EXCEPT ![g].error = "AttributeError"]
                /\ UNCHANGED conversation_history
           ELSE IF SummaryOnly(f)
           THEN /\ frame' = [frame EXCEPT ![g].pc = "yield_summary"]
                /\ trace' = [trace EXCEPT ![g].out = Append(@, Summary(f.mushroom_info)),
                                          ![g].effects = @ \cup {"summary"}]
                /\ UNCHANGED conversation_history
           ELSE IF WithContext(f)
           THEN /\ frame' = [frame EXCEPT ![g].pc = "call"]
                /\ conversation_history' =
                     Append(conversation_history,
                            <<TextPart(JsonSummary(f.mushroom_info))>>)
                /\ trace' = [trace EXCEPT ![g].appended = Append(@, "synthetic"),
                                          ![g].at = Append(@, Len(conversation_history) + 1),
                                          ![g].effects = @ \cup {"context"}]
           ELSE /\ frame' = [frame EXCEPT ![g].pc = "call"]
                /\ UNCHANGED <<conversation_history, trace>>
    /\ UNCHANGED <<last_mushroom_json, turns, delivered, probe>>

\* the summary is stored but the turn goes on to the streaming request
AfterSummaryFallsThrough(g) ==
    /\ frame[g].pc = "yield_summary"
    /\ conversation_history' =
         Append(conversation_history, <<TextPart(Summary(frame[g].mushroom_info))>>)
    /\ frame' = [frame EXCEPT ![g].pc = "call"]
    /\ trace' = [trace EXCEPT ![g].appended = Append(@, "assistant"),
                              ![g].at = Append(@, Len(conversation_history) + 1)]
    /\ UNCHANGED <<last_mushroom_json, turns, delivered, probe>>

\* lines 152-153: resumed after the summary
AfterSummary(g) ==
    /\ frame[g].pc = "yield_summary"
    /\ conversation_history' =
         Append(conversation_history, <<TextPart(Summary(frame[g].mushroom_info))>>)
    /\ frame' = [frame EXCEPT ![g].pc = "done"]
    /\ trace' = [trace EXCEPT ![g].appended = Append(@, "assistant"),
                              ![g].at = Append(@, Len(conversation_history) + 1)]
    /\ UNCHANGED <<last_mushroom_json, turns, delivered, probe>>

\* the request is made with the history the turn found, not the current one
StreamCallStale(g) ==
    /\ frame[g].pc = "call"
    /\ \/ /\ frame' = [frame EXCEPT ![g].pc = "iter", ![g].partial_text = <<>>]
          /\ trace' = [trace EXCEPT ![g].contexts = Append(@, trace[g].h0),
                                    ![g].effects = @ \cup {"stream"}]
       \/ /\ frame' = [frame EXCEPT ![g].pc = "yield_err"]
          /\ trace' = [trace EXCEPT ![g].contexts = Append(@, trace[g].h0),
                                    ![g].effects = @ \cup {"stream"},
                                    ![g].failed = TRUE,
                                    ![g].out = Append(@, StreamErrMsg)]
    /\ UNCHANGED <<conversation_history, last_mushroom_json, turns, delivered, probe>>

\* lines 164-174: the streaming request with the whole history as contents;
\* it returns a stream, or raises into the except branch (lines 184-187)
StreamCall(g) ==
    /\ frame[g].pc = "call"
    /\ \/ /\ frame' = [frame EXCEPT ![g].pc = "iter", ![g].partial_text = <<>>]
          /\ trace' = [trace EXCEPT ![g].contexts = Append(@, conversation_history),
                                    ![g].effects = @ \cup {"stream"}]
       \/ /\ frame' = [frame EXCEPT ![g].pc = "yield_err"]
          /\ trace' = [trace EXCEPT ![g].contexts = Append(@, conversation_history),
                                    ![g].effects = @ \cup {"stream"},
                                    ![g].failed = TRUE,
                                    ![g].out = Append(@, StreamErrMsg)]
    /\ UNCHANGED <<conversation_history, last_mushroom_json, turns, delivered, probe>>

\* the buffer is replaced by the chunk
AccumulateDelta(partial_text, text) == text

\* line 177: the buffer after a chunk with text
Accumulate(partial_text, text) == partial_text \o text

\* lines 175-178: the stream delivers one more chunk; with text, the buffer
\* grows and is yielded
StreamChunk(g) ==
    /\ frame[g].pc = "iter"
    /\ delivered < MaxChunks
    /\ delivered' = delivered + 1
    /\ \E text \in ChunkTexts \cup {NoText} :
         IF Truthy(text)
         THEN LET buffer == Accumulate(frame[g].partial_text, text)
              IN  /\ frame' = [frame EXCEPT ![g].pc = "yield_chunk",
                                            ![g].partial_text = buffer]
                  /\ trace' = [trace EXCEPT ![g].chunks = Append(@, text),
                                            ![g].out = Append(@, buffer)]
         ELSE /\ trace' = [trace EXCEPT ![g].chunks = Append(@, text)]
              /\ UNCHANGED frame
    /\ UNCHANGED <<conversation_history, last_mushroom_json, turns, probe>>

\* line 178: resumed after a partial reply, back in the for loop
ResumeStream(g) ==
    /\ frame[g].pc = "yield_chunk"
    /\ frame' = [frame EXCEPT ![g].pc = "iter"]
    /\ UNCHANGED <<conversation_history, last_mushroom_json, trace, turns, delivered, probe>>

\* the reply is saved whenever it is not empty
KeepsReplyNonEmpty(partial_text) == Truthy(partial_text)

\* line 181: the condition under which the reply is saved
KeepsReply(partial_text) == Truthy(strip(partial_text))

\* the reply is stored without its leading and trailing whitespace
StreamEndStripped(g) ==
    /\ frame[g].pc = "iter"
    /\ IF KeepsReply(frame[g].partial_text)
       THEN /\ conversation_history' =
                 Append(conversation_history, <<TextPart(strip(frame[g].partial_text))>>)
            /\ trace' = [trace EXCEPT
                           ![g].appended = Append(@, "assistant"),
                           ![g].at = Append(@, Len(conversation_history) + 1)]
       ELSE UNCHANGED <<conversation_history, trace>>
    /\ frame' = [frame EXCEPT ![g].pc = "done"]
    /\ UNCHANGED <<last_mushroom_json, turns, delivered, probe>>

\* lines 180-182: the stream is exhausted
StreamEnd(g) ==
    /\ frame[g].pc = "iter"
    /\ IF KeepsReply(frame[g].partial_text)
       THEN /\ conversation_history' =
                 Append(conversation_history, <<TextPart(frame[g].partial_text)>>)
            /\ trace' = [trace EXCEPT
                           ![g].appended = Append(@, "assistant"),
                           ![g].at = Append(@, Len(conversation_history) + 1)]
       ELSE UNCHANGED <<conversation_history, trace>>
    /\ frame' = [frame EXCEPT ![g].pc = "done"]
    /\ UNCHANGED <<last_mushroom_json, turns, delivered, probe>>

\* lines 184-187: the iteration over the stream raises
StreamRaise(g) ==
    /\ frame[g].pc = "iter"
    /\ frame' = [frame EXCEPT ![g].pc = "yield_err"]
    /\ trace' = [trace EXCEPT ![g].failed = TRUE,
                              ![g].out = Append(@, StreamErrMsg)]
    /\ UNCHANGED <<conversation_history, last_mushroom_json, turns, delivered, probe>>

\* the partial reply is stored before the error message
AfterErrorKeepsPartial(g) ==
    /\ frame[g].pc = "yield_err"
    /\ conversation_history' =
         conversation_history \o
         <<<<TextPart(frame[g].partial_text)>>, <<TextPart(StreamErrMsg)>>>>
    /\ frame' = [frame EXCEPT ![g].pc = "done"]
    /\ trace' = [trace EXCEPT ![g].appended = @ \o <<"assistant", "assistant">>,
                              ![g].at = @ \o <<Len(conversation_history) + 1,
                                               Len(conversation_history) + 2>>]
    /\ UNCHANGED <<last_mushroom_json, turns, delivered, probe>>

\* line 188: resumed after the error message
AfterError(g) ==
    /\ frame[g].pc = "yield_err"
    /\ conversation_history' = Append(conversation_history, <<TextPart(StreamErrMsg)>>)
    /\ frame' = [frame EXCEPT ![g].pc = "done"]
    /\ trace' = [trace EXCEPT ![g].appended = Append(@, "assistant"),
                              ![g].at = Append(@, Len(conversation_history) + 1)]
    /\ UNCHANGED <<last_mushroom_json, turns, delivered, probe>>

\* closing the generator stores what it had accumulated, as a finally would
CloseKeepsPartial(g) ==
    /\ frame[g].pc \in YieldPcs
    /\ frame' = [frame EXCEPT ![g].pc = "closed"]
    /\ IF Truthy(frame[g].partial_text)
       THEN /\ conversation_history' =
                 Append(conversation_history, <<TextPart(frame[g].partial_text)>>)
            /\ trace' = [trace EXCEPT
                           ![g].appended = Append(@, "assistant"),
                           ![g].at = Append(@, Len(conversation_history) + 1)]
       ELSE UNCHANGED <<conversation_history, trace>>
    /\ UNCHANGED <<last_mushroom_json, turns, delivered, probe>>

\* the consumer drops a suspended generator: GeneratorExit is raised at the
\* yield, and except Exception does not catch it
Close(g) ==
    /\ frame[g].pc \in YieldPcs
    /\ frame' = [frame EXCEPT ![g].pc = "closed"]
    /\ UNCHANGED <<conversation_history, last_mushroom_json, trace, turns, delivered, probe>>

\* one step of a generator that has been created: a pull of the consumer
\* runs the body to its next suspension point, or the consumer drops it
Resume(g) ==
    \/ SafetyFilter(g)
    \/ AfterSafety(g)
    \/ AddUserInput(g)
    \/ Extract(g)
    \/ Compose(g)
    \/ AfterSummary(g)
    \/ StreamCall(g)
    \/ StreamChunk(g)
    \/ ResumeStream(g)
    \/ StreamEnd(g)
    \/ StreamRaise(g)
    \/ AfterError(g)
    \/ Close(g)

\* one step of generator g
Step(g) == Begin(g) \/ Resume(g)

\* one turn at a time: a single generator, started again when it has ended
Next == Step(1)

Spec == Init /\ [][Next]_vars

\* calls of response that overlap: each generator is pulled, or dropped, by
\* its own consumer, in any order
\* the inputs of the overlapping calls: a question, a blocked question and a
\* photo on its own
OverlappingInputs ==
    {<<Hello, <<>>>>, <<ToxicQuestion, <<>>>>, <<Blank, <<PhotoFile>>>>}

\* each consumer calls response once
BeginOverlapping(g) ==
    /\ frame[g].pc = "idle"
    /\ \E inputs \in OverlappingInputs : Call(g, inputs[1], inputs[2])

NextConcurrent == \E g \in Gens : BeginOverlapping(g) \/ Resume(g)

SpecConcurrent == Init /\ [][NextConcurrent]_vars

\* a turn of the poisoning scenario
BeginScenario(g) ==
    \E text \in ScenarioTexts, files \in FileLists : Call(g, text, files)

NextScenario == BeginScenario(1) \/ Resume(1)

\* the chat, one turn at a time, with the texts of the poisoning scenario
SpecScenario == Init /\ [][NextScenario]_vars

\* ------------------------------------------------------------------------
\* Properties
\* ------------------------------------------------------------------------
\* the turn of generator g has been submitted
Submitted(g) == frame[g].pc # "idle"

\* the turn ran to exhaustion and no exception left the generator
Exhausted(g) == frame[g].pc = "done"

\* the text of the turn falls into the intercepted category
BlockedInput(g) == trace[g].category = "medical"

\* the text of the turn has a character that is no whitespace
NonBlankInput(g) == \E i \in DOMAIN frame[g].user_text : ~IsSpace(frame[g].user_text[i])

\* the turns appended to the history since the turn was submitted
Since(g) ==
    SubSeq(conversation_history, Len(trace[g].h0) + 1, Len(conversation_history))

\* the last element a turn has yielded
LastOut(g) == trace[g].out[Len(trace[g].out)]

\* C1: a turn whose text classifies into the intercepted category, with or
\* without a file, never opens the file and never issues an extraction or a
\* streaming request.
C1_BlockedTurnMakesNoCall ==
    \A g \in Gens :
        (Submitted(g) /\ BlockedInput(g))
        => /\ trace[g].reads = 0
           /\ trace[g].extracts = 0
           /\ trace[g].contexts = <<>>

\* a blocked turn with a file attached has run to its end
C1_Witness ==
    \E g \in Gens :
        /\ Exhausted(g)
        /\ BlockedInput(g)
        /\ frame[g].user_files = <<PhotoFile>>
        /\ trace[g].out = <<MedicalMsg>>

\* the messages a turn may end on, given its local state
TerminalMessages(g) ==
    {MedicalMsg, StreamErrMsg} \cup
    (IF Truthy(frame[g].partial_text) THEN {frame[g].partial_text} ELSE {}) \cup
    (IF HasGet(frame[g].mushroom_info) THEN {Summary(frame[g].mushroom_info)} ELSE {})

\* C2: every turn pulled to exhaustion has yielded at least one element and
\* its last element is a terminal message (safety message, summary, generated
\* reply or error message); no exhausted turn has an empty output.
C2_EveryTurnAnswered ==
    \A g \in Gens :
        Exhausted(g)
        => /\ Len(trace[g].out) >= 1
           /\ LastOut(g) \in TerminalMessages(g)

\* the turn has a file or a text that is not blank
InputNonEmpty(g) == NonBlankInput(g) \/ Truthy(frame[g].user_files)

\* the buffer of the turn has a character that is no whitespace
NonBlankBuffer(g) ==
    \E i \in DOMAIN frame[g].partial_text : ~IsSpace(frame[g].partial_text[i])

\* number of turns of the given role the generator has appended
Count(g, role) ==
    Cardinality({i \in DOMAIN trace[g].appended : trace[g].appended[i] = role})

\* C3 as stated: an exhausted turn grows the history by exactly one assistant
\* turn, plus exactly one user turn when the input is not empty, whatever the
\* kind of turn.
C3_OneUserOneAssistant ==
    \A g \in Gens :
        Exhausted(g)
        => /\ Count(g, "assistant") = 1
           /\ Count(g, "user") = (IF InputNonEmpty(g) THEN 1 ELSE 0)
           /\ Len(Since(g)) = 1 + (IF InputNonEmpty(g) THEN 1 ELSE 0)

\* the roles an exhausted turn appends, in order, as a function of its input,
\* of the extraction result and of the stream
ExpectedRoles(g) ==
    LET image    == Truthy(frame[g].user_files)
        guess    == PyTruthy(frame[g].mushroom_info)
        user     == IF InputNonEmpty(g) THEN <<"user">> ELSE <<>>
        context  == IF image /\ NonBlankInput(g) /\ guess
                    THEN <<"synthetic">> ELSE <<>>
        answered == \/ image /\ ~NonBlankInput(g) /\ guess
                    \/ trace[g].failed
                    \/ NonBlankBuffer(g)
    IN  IF BlockedInput(g) THEN <<"assistant">>
        ELSE user \o context \o (IF answered THEN <<"assistant">> ELSE <<>>)

\* C3 (amended): an exhausted blocked turn grows the history by the safety
\* message alone; an exhausted unblocked turn grows it by one user turn when
\* it has a file or non-blank text, then one synthetic turn when it has an
\* image, non-blank text and an extraction result, then one assistant turn,
\* which is missing exactly when the stream ended normally on a blank buffer.
C3_TurnGrowth ==
    \A g \in Gens :
        Exhausted(g)
        => /\ trace[g].appended = ExpectedRoles(g)
           /\ Len(Since(g)) = Len(ExpectedRoles(g))

\* an exhausted turn that appended a user, a synthetic and an assistant turn
C3_Witness ==
    \E g \in Gens :
        /\ Exhausted(g)
        /\ trace[g].appended = <<"user", "synthetic", "assistant">>
        /\ Len(Since(g)) = Len(trace[g].appended)

\* chunk.text of the chunks that carried text, in order
TextChunks(g) == SelectSeq(trace[g].chunks, Truthy)

\* C4: when the streaming request or the iteration raises after k >= 0 text
\* chunks, no exception leaves the generator, the element after the k partial
\* replies is the error message and it is the last, only one streaming
\* request was made, and on exhaustion the error message is the only
\* assistant turn appended while the partial buffer is not in the history.
C4_StreamFailureRecovered ==
    \A g \in Gens :
        trace[g].failed
        => /\ trace[g].error = None
           /\ frame[g].pc \in {"yield_err", "done", "closed"}
           /\ Len(trace[g].out) = Len(TextChunks(g)) + 1
           /\ LastOut(g) = StreamErrMsg
           /\ \A i \in 1..(Len(trace[g].out) - 1) : trace[g].out[i] # StreamErrMsg
           /\ Len(trace[g].contexts) = 1
           /\ IF Exhausted(g)
              THEN /\ Count(g, "assistant") = 1
                   /\ Since(g)[Len(Since(g))] = <<TextPart(StreamErrMsg)>>
                   /\ \A i \in DOMAIN Since(g) :
                        Since(g)[i] # <<TextPart(frame[g].partial_text)>>
              ELSE Count(g, "assistant") = 0

\* a stream that raised after two partial replies, run to exhaustion
C4_Witness ==
    \E g \in Gens :
        /\ trace[g].failed
        /\ Exhausted(g)
        /\ Len(trace[g].out) = 3
        /\ Len(frame[g].partial_text) = 2

\* the stream of the turn ended without raising and the turn is exhausted
StreamEndedNormally(g) ==
    Exhausted(g) /\ trace[g].contexts # <<>> /\ ~trace[g].failed

\* the buffer is the one assistant turn of the turn, last in the history
BufferSaved(g) ==
    /\ Count(g, "assistant") = 1
    /\ Len(Since(g)) >= 1
    /\ Since(g)[Len(Since(g))] = <<TextPart(frame[g].partial_text)>>

\* C5 as stated: when the stream ends normally and the buffer is not empty,
\* be it whitespace only, the buffer is appended as one assistant turn.
C5_NonEmptyBufferSaved ==
    \A g \in Gens :
        (StreamEndedNormally(g) /\ frame[g].partial_text # <<>>)
        => BufferSaved(g)

\* C5 (amended): when the stream ends normally, the buffer is appended as one
\* assistant turn, unstripped, if it has a character that is no whitespace,
\* and nothing is appended for the reply if it is empty or whitespace only.
C5_NonBlankBufferSaved ==
    \A g \in Gens :
        StreamEndedNormally(g)
        => IF NonBlankBuffer(g)
           THEN BufferSaved(g)
           ELSE Count(g, "assistant") = 0

\* a reply with text and whitespace was saved as it was streamed
C5_Witness ==
    \E g \in Gens :
        /\ StreamEndedNormally(g)
        /\ frame[g].partial_text = <<"a", " ">>
        /\ BufferSaved(g)

\* the concatenation of a sequence of texts
RECURSIVE Flatten(_)
Flatten(texts) ==
    IF Len(texts) = 0 THEN <<>> ELSE texts[1] \o Flatten(Tail(texts))

\* the elements yielded from the for loop (the error message left out)
StreamOut(g) ==
    IF trace[g].failed
    THEN SubSeq(trace[g].out, 1, Len(trace[g].out) - 1)
    ELSE trace[g].out

\* s is a prefix of t
IsPrefix(s, t) == Len(s) <= Len(t) /\ SubSeq(t, 1, Len(s)) = s

\* C6: in a streaming turn the n-th element yielded is the concatenation of
\* the texts of the first n text-bearing chunks, each element extends the
\* one before, and a chunk without text yields nothing and leaves the buffer
\* as it is.
C6_CumulativeReplies ==
    \A g \in Gens :
        trace[g].contexts # <<>>
        => /\ Len(StreamOut(g)) = Len(TextChunks(g))
           /\ \A n \in DOMAIN StreamOut(g) :
                /\ StreamOut(g)[n] = Flatten(SubSeq(TextChunks(g), 1, n))
                /\ n > 1 => IsPrefix(StreamOut(g)[n - 1], StreamOut(g)[n])
           /\ frame[g].partial_text = Flatten(TextChunks(g))

\* two chunks with text were streamed: the second element holds both
C6_Witness ==
    \E g \in Gens :
        /\ trace[g].chunks = <<<<"a">>, <<" ">>>>
        /\ trace[g].out = <<<<"a">>, <<"a", " ">>>>

\* the reply strategy the inputs of the turn select: the safety category,
\* the image, the non-blank text, the extraction result
StrategyOf(g) ==
    LET image == Truthy(frame[g].user_files)
        guess == PyTruthy(frame[g].mushroom_info)
    IN  IF BlockedInput(g) THEN "blocked"
        ELSE IF image /\ ~NonBlankInput(g) /\ guess THEN "summary"
        ELSE IF image /\ NonBlankInput(g) /\ guess THEN "augmented"
        ELSE "plain"

\* the strategies whose effects the turn has run
Taken(g) ==
    LET e == trace[g].effects
    IN  (IF "safety" \in e THEN {"blocked"} ELSE {}) \cup
        (IF "summary" \in e THEN {"summary"} ELSE {}) \cup
        (IF "context" \in e THEN {"augmented"} ELSE {}) \cup
        (IF "stream" \in e /\ "context" \notin e THEN {"plain"} ELSE {})

\* C7: a turn runs the effects of no strategy but the one its inputs select,
\* in the order blocked, summary, augmented, plain; an exhausted turn has run
\* exactly that one; an augmented turn is the only one that both appends a
\* synthetic turn and streams.
C7_OneStrategy ==
    \A g \in Gens :
        Submitted(g)
        => /\ Taken(g) \subseteq {StrategyOf(g)}
           /\ Exhausted(g) => Taken(g) = {StrategyOf(g)}
           /\ Exhausted(g) /\ StrategyOf(g) = "augmented"
                => {"context", "stream"} \subseteq trace[g].effects
           /\ Exhausted(g) /\ StrategyOf(g) \in {"blocked", "summary"}
                => trace[g].contexts = <<>>

\* an exhausted turn with an image whose extraction did not parse: plain
C7_Witness ==
    \E g \in Gens :
        /\ Exhausted(g)
        /\ frame[g].image_part # NoPart
        /\ trace[g].extracts = 1
        /\ frame[g].mushroom_info = JsonNone
        /\ Taken(g) = {"plain"}

\* C8: a blocked turn yields the safety message and nothing else, and when
\* it is exhausted the history is the one it found plus that message.
C8_BlockedTurnReply ==
    \A g \in Gens :
        (Submitted(g) /\ BlockedInput(g))
        => /\ frame[g].pc \in {"start", "yield_msg", "done", "closed"}
           /\ trace[g].out = (IF frame[g].pc = "start" THEN <<>> ELSE <<MedicalMsg>>)
           /\ conversation_history =
                (IF Exhausted(g)
                 THEN Append(trace[g].h0, <<TextPart(MedicalMsg)>>)
                 ELSE trace[g].h0)

\* a blocked turn, exhausted, after an earlier turn left a history
C8_Witness ==
    \E g \in Gens :
        /\ Exhausted(g)
        /\ BlockedInput(g)
        /\ Len(trace[g].h0) >= 1
        /\ conversation_history = Append(trace[g].h0, <<TextPart(MedicalMsg)>>)

\* the user turn of an unblocked turn, from its inputs
UserTurn(g) ==
    (IF NonBlankInput(g) THEN <<TextPart(frame[g].user_text)>> ELSE <<>>) \o
    (IF Truthy(frame[g].user_files)
     THEN <<part_for_image(frame[g].user_files[1])>> ELSE <<>>)

\* the extraction of the turn returned a non-empty object
HasGuess(g) == HasGet(frame[g].mushroom_info) /\ PyTruthy(frame[g].mushroom_info)

\* an unblocked turn with an image, blank text and an extracted guess, past
\* the choice of its reply
ImageOnlyCase(g) ==
    /\ ~BlockedInput(g)
    /\ frame[g].image_part # NoPart
    /\ ~NonBlankInput(g)
    /\ HasGuess(g)
    /\ frame[g].pc # "compose"

\* C9: an unblocked turn with an image, blank text and an extracted guess
\* yields one element, the summary template of that guess, makes no
\* streaming request, and on exhaustion has appended the image and then the
\* summary.
C9_ImageOnlySummary ==
    \A g \in Gens :
        ImageOnlyCase(g)
        => /\ frame[g].pc \in {"yield_summary", "done", "closed"}
           /\ trace[g].out = <<Summary(frame[g].mushroom_info)>>
           /\ trace[g].contexts = <<>>
           /\ Exhausted(g)
                => Since(g) = <<UserTurn(g),
                                <<TextPart(Summary(frame[g].mushroom_info))>>>>

\* the summary of the Fly Agaric guess, with its name and 82%, was stored
C9_Witness ==
    \E g \in Gens :
        /\ Exhausted(g)
        /\ ImageOnlyCase(g)
        /\ frame[g].mushroom_info = FlyAgaric
        /\ \E i, j \in DOMAIN LastOut(g) :
             LastOut(g)[i] = "Fly Agaric" /\ LastOut(g)[j] = "82"
        /\ Since(g)[2] = <<TextPart(LastOut(g))>>

\* an unblocked turn with an image, non-blank text and an extracted guess
AugmentedCase(g) ==
    /\ ~BlockedInput(g)
    /\ frame[g].image_part # NoPart
    /\ NonBlankInput(g)
    /\ HasGuess(g)

\* C10: when a streaming request is made, its contents are the history the
\* turn found, the user turn if any and, exactly in a turn with an image,
\* non-blank text and an extracted guess, one synthetic summary turn after
\* the user turn; no other streaming turn appends a synthetic turn.
C10_SyntheticTurn ==
    \A g \in Gens :
        trace[g].contexts # <<>>
        => IF AugmentedCase(g)
           THEN /\ Count(g, "synthetic") = 1
                /\ SubSeq(trace[g].appended, 1, 2) = <<"user", "synthetic">>
                /\ trace[g].contexts[1] =
                     trace[g].h0 \o
                     <<UserTurn(g), <<TextPart(JsonSummary(frame[g].mushroom_info))>>>>
           ELSE /\ Count(g, "synthetic") = 0
                /\ trace[g].contexts[1] =
                     trace[g].h0 \o
                     (IF UserTurn(g) # <<>> THEN <<UserTurn(g)>> ELSE <<>>)

\* a streaming request whose contents end with the synthetic turn of the
\* Fly Agaric guess, after an earlier turn
C10_Witness ==
    \E g \in Gens :
        /\ AugmentedCase(g)
        /\ trace[g].contexts # <<>>
        /\ Len(trace[g].h0) >= 1
        /\ LET c == trace[g].contexts[1]
           IN  c[Len(c)] = <<TextPart(JsonSummary(FlyAgaric))>>

\* json.loads rejected the extraction response of the turn
ParseFailed(g) == trace[g].parse = "failed"

\* positions of a turn after the choice of its reply, streaming request made
StreamingPcs == {"iter", "yield_chunk", "yield_err", "done", "closed"}

\* C11: when json.loads rejects the extraction response, no exception leaves
\* the generator, last_mushroom_json keeps the value it had, no summary is
\* yielded and no synthetic turn is appended, and the turn goes on to one
\* streaming request whose contents end with the user's own turn (plain
\* generation).
C11_ParseFailureFallsBack ==
    /\ [](\A g \in Gens :
            ParseFailed(g)
            => /\ trace[g].error = None
               /\ frame[g].mushroom_info = JsonNone
               /\ "summary" \notin trace[g].effects
               /\ "context" \notin trace[g].effects
               /\ Count(g, "synthetic") = 0
               /\ frame[g].pc \in {"compose", "call"} \cup StreamingPcs
               /\ frame[g].pc \in StreamingPcs
                    => /\ Taken(g) = {"plain"}
                       /\ trace[g].contexts = <<trace[g].h0 \o <<UserTurn(g)>>>>)
    /\ [][\A g \in Gens : ParseFailed(g)' => last_mushroom_json' = last_mushroom_json]_vars

\* a second turn whose extraction did not parse, after a first turn stored a
\* guess: the turn has streamed to its end and the guess is still there
C11_Witness ==
    \E g \in Gens :
        /\ ParseFailed(g)
        /\ Exhausted(g)
        /\ last_mushroom_json = FlyAgaric
        /\ NonBlankBuffer(g)

\* the step in which json.loads accepts the extraction response of turn g
ParseStep(g) == frame[g].pc = "extract" /\ trace'[g].parse = "parsed"

\* C12: last_mushroom_json is None at the start, the step in which json.loads
\* accepts an extraction response sets it to the parsed value, and no other
\* step changes it: not a turn without image, a blocked turn, a response that
\* does not parse, an extraction request that raises or a failing stream. So
\* it always is the result of the most recent extraction that parsed.
C12_LastGuessIsLatestParse ==
    /\ last_mushroom_json = JsonNone
    /\ [][\A g \in Gens :
            ParseStep(g) => last_mushroom_json' = frame'[g].mushroom_info]_vars
    /\ [][last_mushroom_json' # last_mushroom_json
            => \E g \in Gens : ParseStep(g)]_vars
    /\ [](\A g \in Gens :
            trace[g].parse = "parsed"
            => last_mushroom_json = frame[g].mushroom_info)

\* the turns of a history, as a set
Turns(h) == {h[i] : i \in DOMAIN h}

\* a first turn stored the guess Porcini (its summary is in the history), a
\* second turn parsed the guess Fly Agaric, which is now the stored one
C12_Witness ==
    \E g \in Gens :
        /\ trace[g].parse = "parsed"
        /\ <<TextPart(Summary(PartialGuess))>> \in Turns(trace[g].h0)
        /\ frame[g].mushroom_info = FlyAgaric
        /\ last_mushroom_json = FlyAgaric

\* the value is a record in which every required field is present
FullyPopulated(v) ==
    /\ v.type = "object"
    /\ RequiredFields \subseteq DOMAIN v.val

\* C13: in every reachable state last_mushroom_json is None or a record with
\* all six required fields; a response that parses into an object lacking a
\* required field, or into an empty object, is not stored.
C13_StoredGuessComplete ==
    last_mushroom_json = JsonNone \/ FullyPopulated(last_mushroom_json)

\* C14 as stated: no turn issues more than one extraction request, and a turn
\* run to exhaustion has issued exactly one when a file is attached and none
\* when there is no file.
C14_OneExtractionPerImage ==
    \A g \in Gens :
        /\ trace[g].extracts <= 1
        /\ Exhausted(g)
             => trace[g].extracts = (IF Truthy(frame[g].user_files) THEN 1 ELSE 0)

\* the turn has a file that can be read and a text that is not blocked, and
\* is past the extraction step
PastExtraction(g) ==
    /\ ~BlockedInput(g)
    /\ Truthy(frame[g].user_files)
    /\ frame[g].user_files[1].readable
    /\ frame[g].pc \notin {"start", "parts", "extract"}

\* C14 (amended): an unblocked turn whose file was read issues exactly one
\* extraction request, right after its user turn is appended; no turn issues
\* more than one; a turn without a file, a blocked turn (with or without a
\* file) and a turn whose file cannot be read issue none.
C14_OneExtractionPerReadImage ==
    \A g \in Gens :
        Submitted(g)
        => trace[g].extracts = (IF PastExtraction(g) THEN 1 ELSE 0)

\* two turns in a row with the same image: each has issued its own request
C14_Witness ==
    \E g \in Gens :
        /\ Exhausted(g)
        /\ PastExtraction(g)
        /\ trace[g].extracts = 1
        /\ <<part_for_image(PhotoFile)>> \in Turns(trace[g].h0)

\* C15: the history only grows at its end and holds no empty turn: in every
\* step the history before is a prefix of the history after, and every turn
\* in it has at least one part, also after a turn with blank text and no
\* file (which appends no user turn at all).
C15_AppendOnlyNoEmptyTurn ==
    /\ [][IsPrefix(conversation_history, conversation_history')]_vars
    /\ [](\A i \in DOMAIN conversation_history : Len(conversation_history[i]) >= 1)
    /\ [](\A g \in Gens :
            (~NonBlankInput(g) /\ ~Truthy(frame[g].user_files))
            => Count(g, "user") = 0)

\* a turn with blank text and no file has been answered by the stream, after
\* an earlier turn had left turns in the history
C15_Witness ==
    \E g \in Gens :
        /\ Exhausted(g)
        /\ frame[g].user_text = Blank
        /\ frame[g].user_files = <<>>
        /\ Len(trace[g].h0) >= 2
        /\ trace[g].appended = <<"assistant">>

\* the consumer dropped the generator after its streaming request, while it
\* was suspended on a partial reply or on the error message
StreamAbandoned(g) == frame[g].pc = "closed" /\ trace[g].contexts # <<>>

\* C18: when the consumer stops pulling a streaming turn before it is
\* exhausted, neither the partial buffer nor the error message is appended;
\* the user turn and the synthetic turn appended before the streaming request
\* stay, so the history is exactly the contents of that request and ends
\* without an assistant turn for this turn.
C18_AbandonedStreamLeavesNoReply ==
    \A g \in Gens :
        StreamAbandoned(g)
        => /\ Count(g, "assistant") = 0
           /\ conversation_history = trace[g].contexts[1]
           /\ Since(g) =
                (IF UserTurn(g) # <<>> THEN <<UserTurn(g)>> ELSE <<>>) \o
                (IF AugmentedCase(g)
                 THEN <<<<TextPart(JsonSummary(frame[g].mushroom_info))>>>>
                 ELSE <<>>)
           /\ \A i \in DOMAIN Since(g) :
                Since(g)[i] \notin {<<TextPart(frame[g].partial_text)>>,
                                    <<TextPart(StreamErrMsg)>>}

\* an augmented turn dropped after its first partial reply: the user turn and
\* the synthetic turn are in the history, the buffer is not
C18_Witness ==
    \E g \in Gens :
        /\ StreamAbandoned(g)
        /\ ~trace[g].failed
        /\ Truthy(frame[g].partial_text)
        /\ trace[g].appended = <<"user", "synthetic">>
        /\ Len(Since(g)) = 2

\* the file of the turn cannot be opened and the filter let the text through
UnreadableInput(g) ==
    /\ ~BlockedInput(g)
    /\ Truthy(frame[g].user_files)
    /\ ~frame[g].user_files[1].readable

\* C20: when the attached file cannot be read, the error leaves the generator
\* and the turn leaves the state as it found it: nothing is yielded, no turn
\* is appended, last_mushroom_json is not changed and neither an extraction
\* nor a streaming request is made.
C20_UnreadableFileLeavesState ==
    /\ [](\A g \in Gens :
            (Submitted(g) /\ UnreadableInput(g))
            => /\ frame[g].pc \in {"start", "parts", "raised"}
               /\ frame[g].pc = "raised" <=> trace[g].error = "OSError"
               /\ conversation_history = trace[g].h0
               /\ trace[g].appended = <<>>
               /\ trace[g].out = <<>>
               /\ trace[g].extracts = 0
               /\ trace[g].contexts = <<>>)
    /\ [][\A g \in Gens :
            (Submitted(g) /\ UnreadableInput(g))'
            => last_mushroom_json' = last_mushroom_json]_vars

\* a turn with text and an unreadable file has raised, after an earlier turn
\* had stored a guess and left turns in the history
C20_Witness ==
    \E g \in Gens :
        /\ UnreadableInput(g)
        /\ frame[g].user_text = Hello
        /\ frame[g].pc = "raised"
        /\ trace[g].error = "OSError"
        /\ last_mushroom_json = FlyAgaric
        /\ Len(conversation_history) >= 2

\* ------------------------------------------------------------------------
\* classify_question on its own, over both rule tables
\* ------------------------------------------------------------------------
\* number of words of the longest text classified
MaxWords == 3

\* words the texts are made of
Toxic == <<"T", "o", "x", "i", "c">>
Cure == <<"c", "u", "r", "e">>
Poisonous == <<"p", "o", "i", "s", "o", "n", "o", "u", "s">>
Eat == <<"e", "a", "t">>
This == <<"t", "h", "i", "s">>
MushroomS == <<"m", "u", "s", "h", "r", "o", "o", "m", "'", "s">>
Color == <<"c", "o", "l", "o", "r">>

Vocabulary == {Toxic, Cure, Poisonous, Eat, This, MushroomS, Color, Hello}

\* the words separated by one space
RECURSIVE JoinWords(_)
JoinWords(ws) ==
    IF ws = <<>> THEN <<>>
    ELSE IF Len(ws) = 1 THEN ws[1]
    ELSE ws[1] \o <<" ">> \o JoinWords(Tail(ws))

\* the texts classified: up to MaxWords words of the vocabulary
ClassifyTexts ==
    {JoinWords(ws) : ws \in UNION {[1..n -> Vocabulary] : n \in 0..MaxWords}}

\* the two rule tables of the repository
Tables == [primary |-> RISKY_PATTERNS, final |-> RISKY_PATTERNS_final]

InitClassify ==
    /\ conversation_history = <<>>
    /\ last_mushroom_json = JsonNone
    /\ frame = [g \in Gens |-> IdleFrame]
    /\ trace = [g \in Gens |-> IdleTrace]
    /\ turns = 0
    /\ delivered = 0
    /\ \E text \in ClassifyTexts : probe = [NoProbe EXCEPT !.text = text]

\* classify_question(text) with the named rule table
Classify(name) ==
    /\ probe.result = "pending"
    /\ probe' = [probe EXCEPT !.table = name,
                              !.result = ClassifyWith(Tables[name], probe.text)]
    /\ UNCHANGED <<conversation_history, last_mushroom_json, frame, trace,
                   turns, delivered>>

NextClassify == \E name \in DOMAIN Tables : Classify(name)

SpecClassify == InitClassify /\ [][NextClassify]_vars

\* C16: classify_question returns the first category, in the order of the
\* rule table, that has a rule matching the lower-cased text, so an earlier
\* category pre-empts a later one; it returns None exactly when no rule of any
\* category matches; and it changes nothing of the program's state.
C16_FirstMatchingCategory ==
    probe.result # "pending"
    => LET table == Tables[probe.table]
           Hit(c) == \E p \in DOMAIN table[c].patterns :
                        re_search(table[c].patterns[p], lower(probe.text))
       IN  /\ probe.result = None <=> \A c \in DOMAIN table : ~Hit(c)
           /\ probe.result # None
                => \E c \in DOMAIN table :
                     /\ table[c].category = probe.result
                     /\ Hit(c)
                     /\ \A d \in 1..(c - 1) : ~Hit(d)
           /\ conversation_history = <<>>
           /\ last_mushroom_json = JsonNone
           /\ frame = [g \in Gens |-> IdleFrame]

\* "mushroom's color Toxic" under the three-category table: rules of color
\* and of edibility match, and the result is color
C16_Witness ==
    /\ probe.table = "final"
    /\ probe.text = JoinWords(<<MushroomS, Color, Toxic>>)
    /\ CategoryMatches(RISKY_PATTERNS_final[1], probe.text)
    /\ CategoryMatches(RISKY_PATTERNS_final[2], probe.text)
    /\ probe.result = "color"

\* C17: a turn whose text is "Is this poisonous?" is classified as medical
\* and answered with the fixed safety message alone, without an extraction
\* request and without a streaming request.
C17_PoisonousIsBlocked ==
    \A g \in Gens :
        (Exhausted(g) /\ frame[g].user_text = PoisonousQuestion)
        => /\ trace[g].category = "medical"
           /\ trace[g].out = <<MedicalMsg>>
           /\ trace[g].extracts = 0
           /\ trace[g].contexts = <<>>

\* the turns generator g appended sit next to each other in the history
Contiguous(g) ==
    \A i \in 1..(Len(trace[g].at) - 1) : trace[g].at[i + 1] = trace[g].at[i] + 1

\* where in the history generator g appended its user turn (0: nowhere)
UserAt(g) ==
    LET users == {i \in DOMAIN trace[g].appended : trace[g].appended[i] = "user"}
    IN  IF users = {} THEN 0 ELSE trace[g].at[CHOOSE i \in users : TRUE]

\* the contents of g's streaming request hold g's user turn, and no user turn
\* of another generator after it
OwnContext(g) ==
    (trace[g].contexts # <<>> /\ UserAt(g) > 0)
    => LET context == trace[g].contexts[1]
       IN  /\ UserAt(g) <= Len(context)
           /\ context[UserAt(g)] = UserTurn(g)
           /\ \A h \in Gens \ {g} :
                UserAt(h) > UserAt(g) => UserAt(h) > Len(context)

\* C19 as stated: when two calls of response run as interleaved generators on
\* the shared history, no append of one falls between the appends of the
\* other, and each streaming request sees a context whose latest user turn is
\* its own.
C19_TurnsIsolated ==
    \A g \in Gens :
        Submitted(g) => Contiguous(g) /\ OwnContext(g)

\* C19 (amended): a turn during which no other generator is alive appends its
\* turns next to each other, right after the history it found, and its
\* streaming request sees a context whose latest user turn is its own; the
\* code does nothing to keep two generators from overlapping.
C19_IsolatedWhenNotOverlapped ==
    \A g \in Gens :
        (Submitted(g) /\ ~trace[g].overlapped)
        => /\ Contiguous(g)
           /\ trace[g].at # <<>> => trace[g].at[1] = Len(trace[g].h0) + 1
           /\ OwnContext(g)

\* the second of two calls that did not overlap: it found the turns of the
\* first, appended its question and the streamed reply after them
C19_Witness ==
    \E g \in Gens :
        /\ ~trace[g].overlapped
        /\ Exhausted(g)
        /\ Len(trace[g].h0) = 2
        /\ trace[g].appended = <<"user", "assistant">>
        /\ trace[g].contexts # <<>>

\* the texts of a history that are texts a user can send and that the filter
\* intercepts
BlockedTextsIn(h) ==
    UNION {{h[i][j].data : j \in {k \in DOMAIN h[i] :
                                    /\ h[i][k].kind = "text"
                                    /\ h[i][k].data \in DOMAIN Categories
                                    /\ Categories[h[i][k].data] = "medical"}} :
           i \in DOMAIN h}

\* C21: across any sequence of turns, neither the history nor the contents of
\* any streaming request holds a user text that classifies into the
\* intercepted category: a blocked turn appends its safety message and never
\* its text.
C21_NoBlockedTextInContext ==
    /\ BlockedTextsIn(conversation_history) = {}
    /\ \A g \in Gens :
         /\ \A c \in DOMAIN trace[g].contexts : BlockedTextsIn(trace[g].contexts[c]) = {}
         /\ (Exhausted(g) /\ BlockedInput(g))
              => Since(g) = <<<<TextPart(MedicalMsg)>>>>

\* a streaming request made after a blocked turn: its contents hold the
\* safety message of that turn and the question of this one
C21_Witness ==
    \E g \in Gens :
        /\ trace[g].contexts # <<>>
        /\ frame[g].user_text = Hello
        /\ trace[g].h0 = <<<<TextPart(MedicalMsg)>>>>
        /\ trace[g].contexts[1] = <<<<TextPart(MedicalMsg)>>, <<TextPart(Hello)>>>>

\* where in the history generator g appended its assistant turns
AssistantAt(g) ==
    {trace[g].at[i] : i \in {k \in DOMAIN trace[g].appended :
                               trace[g].appended[k] = "assistant"}}

\* C22: whenever a turn run to exhaustion has appended an assistant turn, it
\* has yielded at least one element and the turn appended is the one text
\* part holding the last element yielded (safety message, summary, whole
\* streamed buffer or error message).
C22_StoredReplyIsLastSeen ==
    \A g \in Gens :
        Exhausted(g)
        => \A p \in AssistantAt(g) :
             /\ trace[g].out # <<>>
             /\ conversation_history[p] = <<TextPart(LastOut(g))>>

\* a streamed reply of two chunks, the second one a space: the buffer stored
\* is the last element yielded, trailing space included
C22_Witness ==
    \E g \in Gens :
        /\ Exhausted(g)
        /\ ~trace[g].failed
        /\ Len(trace[g].out) = 2
        /\ LastOut(g) = <<"a", " ">>
        /\ AssistantAt(g) = {Len(conversation_history)}
        /\ conversation_history[Len(conversation_history)] = <<TextPart(<<"a", " ">>)>>

====
